---- MODULE Spec2Model ----
(***************************************************************************)
(* Model of the two notebooks of TorchLeet's llm section:                   *)
(*   - attention-q4.ipynb : scaled_dot_product_attention(q, k, v, mask)     *)
(*   - sinusoidal-q7.ipynb: SinusoidalPositionalEmbedding (__init__,        *)
(*                          forward) and the notebook's test cell           *)
(*                                                                         *)
(* Numbers.  q, k, v and mask hold integers.  The library primitives the    *)
(* code calls (sqrt, exp, sin, cos) are kept symbolic:                      *)
(*   - a scaled score is the term n / sqrt(d), or -inf;                     *)
(*   - exp of a finite score is a positive atom named by that score, and    *)
(*     exp(-inf) = 0; a sum of exps is a bag of atoms;                      *)
(*   - an attention weight is the quotient num/den of two such bags, and    *)
(*     0/0 (empty den) is NaN;                                              *)
(*   - an entry of pe is the term sin(p * exp(-ln(10000) * k / d_model))    *)
(*     or cos(...), with sin(0) = 0, cos(0) = 1 and exp(0) = 1 evaluated.   *)
(* Floating-point rounding is not modelled.                                 *)
(***************************************************************************)
EXTENDS Integers, Sequences, FiniteSets, Bags, TLC

VARIABLES
    \* scaled_dot_product_attention: arguments, locals, position in the body
    q, k, v, mask, scores, attention_weights, output, pc,
    \* SinusoidalPositionalEmbedding: constructor arguments, the buffer pe,
    \* the number of slice assignments each entry of pe received, the tensors
    \* forward returned, position of the object, who drives it, caller writes
    max_seq_len, d_model, pe, assigned, returned, epc, script, nwrites

attnVars == <<q, k, v, mask, scores, attention_weights, output, pc>>
embVars == <<max_seq_len, d_model, pe, assigned, returned, epc, script, nwrites>>
vars == <<q, k, v, mask, scores, attention_weights, output, pc,
          max_seq_len, d_model, pe, assigned, returned, epc, script, nwrites>>

(***************************************************************************)
(* Bounds of the explored inputs                                           *)
(***************************************************************************)
MaxBatch == 2
MaxSeq == 3
MaxDim == 2
MaxSeed == 1
MaxLen == 3
MaxModel == 4
MaxCalls == 2
MaxWrites == 1

(***************************************************************************)
(* Constants of the notebooks' test cells                                  *)
(***************************************************************************)
batch_size == 1
seq_len == 3
dim == 3
TestMaxSeqLen == 100
TestDModel == 64
TestSeqLen == 50

(***************************************************************************)
(* Tensors: [shape |-> <<B, S, D>>, data |-> 1-based nested sequences]       *)
(***************************************************************************)
NoTensor == [shape |-> <<>>, data |-> <<>>]

RECURSIVE SumSeq(_)
SumSeq(s) == IF s = <<>> THEN 0 ELSE Head(s) + SumSeq(Tail(s))

RECURSIVE BagSumSeq(_)
BagSumSeq(s) == IF s = <<>> THEN EmptyBag ELSE Head(s) (+) BagSumSeq(Tail(s))

\* Broadcasting of one dimension; 0 when the sizes do not broadcast.
BDim(a, b) == IF a = b THEN a ELSE IF a = 1 THEN b ELSE IF b = 1 THEN a ELSE 0

\* Index into a dimension of the given size under broadcasting.
Bix(size, i) == IF size = 1 THEN 1 ELSE i

(***************************************************************************)
(* attention-q4.ipynb: the library primitives on the symbolic numbers      *)
(***************************************************************************)
\* The scaled score n / sqrt(d), and float('-inf').
Fin(n, d) == [kind |-> "fin", n |-> n, d |-> d]
NegInf == [kind |-> "-inf", n |-> 0, d |-> 0]

\* exp of a scaled score as a sum of atoms: one atom, or nothing for -inf.
ExpOf(s) == IF s = NegInf THEN EmptyBag ELSE SetToBag({s})

\* k.transpose(-2, -1)
Transpose(t) ==
    [shape |-> <<t.shape[1], t.shape[3], t.shape[2]>>,
     data |-> [b \in 1..t.shape[1] |-> [r \in 1..t.shape[3] |->
                 [c \in 1..t.shape[2] |-> t.data[b][c][r]]]]]

\* torch.matmul raises unless the inner sizes agree and the batches broadcast.
MatMulOK(a, b) == a.shape[3] = b.shape[2] /\ BDim(a.shape[1], b.shape[1]) # 0

\* torch.matmul(a, b) on integer tensors, batch dimension broadcast.
MatMul(a, b) ==
    [shape |-> <<BDim(a.shape[1], b.shape[1]), a.shape[2], b.shape[3]>>,
     data |-> [bb \in 1..BDim(a.shape[1], b.shape[1]) |->
                [r \in 1..a.shape[2] |-> [c \in 1..b.shape[3] |->
                   SumSeq([j \in 1..a.shape[3] |->
                       a.data[Bix(a.shape[1], bb)][r][j]
                         * b.data[Bix(b.shape[1], bb)][j][c]])]]]]

\* Faulty variant of KeyDim: d_k read from the sequence axis, q.shape[-2].
KeyDimFromSeqAxis(qq) == qq.shape[2]

\* d_k = q.shape[-1]
KeyDim(qq) == qq.shape[3]

\* t / torch.sqrt(torch.tensor(d_k, dtype=torch.float32))
DivSqrt(t, d_k) ==
    [shape |-> t.shape,
     data |-> [b \in 1..t.shape[1] |-> [r \in 1..t.shape[2] |->
                 [c \in 1..t.shape[3] |-> Fin(t.data[b][r][c], d_k)]]]]

\* masked_fill raises unless mask and scores broadcast together.
MaskOK(s, m) ==
    /\ BDim(s.shape[1], m.shape[1]) # 0
    /\ BDim(s.shape[2], m.shape[2]) # 0
    /\ BDim(s.shape[3], m.shape[3]) # 0

\* Faulty variant of MaskedFill: the test inverted, masked_fill(mask != 0, -inf).
MaskedFillInverted(s, m) ==
    [shape |-> <<BDim(s.shape[1], m.shape[1]), BDim(s.shape[2], m.shape[2]),
                 BDim(s.shape[3], m.shape[3])>>,
     data |-> [b \in 1..BDim(s.shape[1], m.shape[1]) |->
                [r \in 1..BDim(s.shape[2], m.shape[2]) |->
                  [c \in 1..BDim(s.shape[3], m.shape[3]) |->
                     IF m.data[Bix(m.shape[1], b)][Bix(m.shape[2], r)][Bix(m.shape[3], c)] # 0
                     THEN NegInf
                     ELSE s.data[Bix(s.shape[1], b)][Bix(s.shape[2], r)][Bix(s.shape[3], c)]]]]]

\* scores.masked_fill(mask == 0, float('-inf'))
MaskedFill(s, m) ==
    [shape |-> <<BDim(s.shape[1], m.shape[1]), BDim(s.shape[2], m.shape[2]),
                 BDim(s.shape[3], m.shape[3])>>,
     data |-> [b \in 1..BDim(s.shape[1], m.shape[1]) |->
                [r \in 1..BDim(s.shape[2], m.shape[2]) |->
                  [c \in 1..BDim(s.shape[3], m.shape[3]) |->
                     IF m.data[Bix(m.shape[1], b)][Bix(m.shape[2], r)][Bix(m.shape[3], c)] = 0
                     THEN NegInf
                     ELSE s.data[Bix(s.shape[1], b)][Bix(s.shape[2], r)][Bix(s.shape[3], c)]]]]]

\* Faulty variant of Softmax: normalised along the query axis, dim=-2.
SoftmaxOverQueries(s) ==
    [shape |-> s.shape,
     data |-> [b \in 1..s.shape[1] |-> [r \in 1..s.shape[2] |->
                 [c \in 1..s.shape[3] |->
                    [num |-> ExpOf(s.data[b][r][c]),
                     den |-> BagSumSeq([j \in 1..s.shape[2] |-> ExpOf(s.data[b][j][c])])]]]]]

\* F.softmax(scores, dim=-1): exp(s[c]) over the sum of exp along the key axis.
Softmax(s) ==
    [shape |-> s.shape,
     data |-> [b \in 1..s.shape[1] |-> [r \in 1..s.shape[2] |->
                 [c \in 1..s.shape[3] |->
                    [num |-> ExpOf(s.data[b][r][c]),
                     den |-> BagSumSeq([j \in 1..s.shape[3] |-> ExpOf(s.data[b][r][j])])]]]]]

\* One entry of torch.matmul(w, vv): the weights of a row share their
\* denominator, so the entry is (sum over keys of v * exp atom) / den, kept as
\* the coefficient of every atom of den.
WeightedSum(w, vv, bb, r, c) ==
    LET row == w.data[Bix(w.shape[1], bb)][r]
        den == row[1].den
    IN  [num |-> [a \in DOMAIN den |->
                    SumSeq([j \in 1..w.shape[3] |->
                       CopiesIn(a, row[j].num) * vv.data[Bix(vv.shape[1], bb)][j][c]])],
         den |-> den]

\* Faulty variant of MatMulW: the product taken the other way round, which
\* returns the transposed output.
MatMulWTransposed(w, vv) ==
    [shape |-> <<BDim(w.shape[1], vv.shape[1]), vv.shape[3], w.shape[2]>>,
     data |-> [bb \in 1..BDim(w.shape[1], vv.shape[1]) |->
                [c \in 1..vv.shape[3] |-> [r \in 1..w.shape[2] |->
                   WeightedSum(w, vv, bb, r, c)]]]]

\* torch.matmul(attention_weights, v)
MatMulW(w, vv) ==
    [shape |-> <<BDim(w.shape[1], vv.shape[1]), w.shape[2], vv.shape[3]>>,
     data |-> [bb \in 1..BDim(w.shape[1], vv.shape[1]) |->
                [r \in 1..w.shape[2] |-> [c \in 1..vv.shape[3] |->
                   WeightedSum(w, vv, bb, r, c)]]]]

(***************************************************************************)
(* attention-q4.ipynb: the inputs of a call                                 *)
(***************************************************************************)
\* torch.manual_seed(seed); torch.randn(B, S, D): the t-th tensor drawn, as
\* small integers fixed by the seed.
Randn(seed, t, B, S, D) ==
    [shape |-> <<B, S, D>>,
     data |-> [b \in 1..B |-> [r \in 1..S |-> [c \in 1..D |->
        (((7 * b + 5 * r + 3 * c + 11 * t + 13 * seed) * (r + 2 * c + t + seed + 1)) % 5) - 2]]]]

\* The masks of the notebook's constraint ("future tokens or padding"), a
\* mask that blocks everything and a non-boolean mask; 0 marks a blocked pair.
MaskPatterns == {"causal", "padding", "blocked", "distance"}

MaskValue(pattern, r, c, width) ==
    CASE pattern = "causal" -> IF c <= r THEN 1 ELSE 0
      [] pattern = "padding" -> IF c < width \/ width = 1 THEN 1 ELSE 0
      [] pattern = "blocked" -> 0
      [] pattern = "distance" -> c - r - 1

\* mask=None, a mask of the scores' shape, a key-padding mask broadcast over
\* batch and query rows, and a mask one key too wide.
MaskKinds == {"none", "full", "keys", "bad"}

MaskTensor(pattern, B, S, W) ==
    [shape |-> <<B, S, W>>,
     data |-> [b \in 1..B |-> [r \in 1..S |-> [c \in 1..W |-> MaskValue(pattern, r, c, W)]]]]

MakeMask(kind, pattern, B, Sq, Sk) ==
    CASE kind = "none" -> NoTensor
      [] kind = "full" -> MaskTensor(pattern, B, Sq, Sk)
      [] kind = "keys" -> MaskTensor(pattern, 1, 1, Sk)
      [] kind = "bad" -> MaskTensor(pattern, B, Sq, Sk + 1)

\* How the shapes of k and v depart from q's (B, Sq, Dk): not at all, k with
\* another d_k, v with another seq_len_k, k or v with another batch size
\* (which broadcasts when B = 1).
Defects == {"none", "k_dk", "v_sk", "k_batch", "v_batch"}

embIdle ==
    /\ max_seq_len = 0 /\ d_model = 0 /\ pe = <<>> /\ assigned = <<>>
    /\ returned = <<>> /\ epc = "idle" /\ script = "none" /\ nwrites = 0

\* The state at the call of scaled_dot_product_attention(q, k, v, mask).
InitAttention ==
    /\ \/ \E B \in 1..MaxBatch, Sq \in 1..MaxSeq, Sk \in 1..MaxSeq,
             Dk \in 1..MaxDim, Dv \in 1..MaxDim, seed \in 0..(MaxSeed - 1),
             defect \in Defects, kind \in MaskKinds, pattern \in MaskPatterns :
            /\ q = Randn(seed, 0, B, Sq, Dk)
            /\ k = Randn(seed, 1, IF defect = "k_batch" THEN B + 1 ELSE B, Sk,
                         IF defect = "k_dk" THEN Dk + 1 ELSE Dk)
            /\ v = Randn(seed, 2, IF defect = "v_batch" THEN B + 1 ELSE B,
                         IF defect = "v_sk" THEN Sk + 1 ELSE Sk, Dv)
            /\ mask = MakeMask(kind, pattern, B, Sq, Sk)
       \/ \* the notebook's test: randn(batch_size, seq_len, dim), no mask
          /\ q = Randn(0, 0, batch_size, seq_len, dim)
          /\ k = Randn(0, 1, batch_size, seq_len, dim)
          /\ v = Randn(0, 2, batch_size, seq_len, dim)
          /\ mask = NoTensor
    /\ scores = NoTensor
    /\ attention_weights = NoTensor
    /\ output = NoTensor
    /\ pc = "call"
    /\ embIdle

(***************************************************************************)
(* attention-q4.ipynb: scaled_dot_product_attention, statement by statement *)
(***************************************************************************)
\* scores = torch.matmul(q, k.transpose(-2, -1)) / torch.sqrt(torch.tensor(d_k))
ComputeScores ==
    /\ pc = "call"
    /\ IF MatMulOK(q, Transpose(k))
       THEN /\ scores' = DivSqrt(MatMul(q, Transpose(k)), KeyDim(q))
            /\ pc' = "scored"
       ELSE /\ scores' = scores
            /\ pc' = "error"
    /\ UNCHANGED <<q, k, v, mask, attention_weights, output>>
    /\ UNCHANGED embVars

\* if mask is not None: scores = scores.masked_fill(mask == 0, float('-inf'))
ApplyMask ==
    /\ pc = "scored"
    /\ IF mask = NoTensor
       THEN /\ scores' = scores
            /\ pc' = "masked"
       ELSE IF MaskOK(scores, mask)
            THEN /\ scores' = MaskedFill(scores, mask)
                 /\ pc' = "masked"
            ELSE /\ scores' = scores
                 /\ pc' = "error"
    /\ UNCHANGED <<q, k, v, mask, attention_weights, output>>
    /\ UNCHANGED embVars

\* attention_weights = F.softmax(scores, dim=-1)
ApplySoftmax ==
    /\ pc = "masked"
    /\ attention_weights' = Softmax(scores)
    /\ pc' = "weighted"
    /\ UNCHANGED <<q, k, v, mask, scores, output>>
    /\ UNCHANGED embVars

\* output = torch.matmul(attention_weights, v); return output, attention_weights
ComputeOutput ==
    /\ pc = "weighted"
    /\ IF MatMulOK(attention_weights, v)
       THEN /\ output' = MatMulW(attention_weights, v)
            /\ pc' = "returned"
       ELSE /\ output' = output
            /\ pc' = "error"
    /\ UNCHANGED <<q, k, v, mask, scores, attention_weights>>
    /\ UNCHANGED embVars

NextAttention == ComputeScores \/ ApplyMask \/ ApplySoftmax \/ ComputeOutput

SpecAttention == InitAttention /\ [][NextAttention]_vars

(***************************************************************************)
(* sinusoidal-q7.ipynb: the library primitives on the symbolic numbers      *)
(***************************************************************************)
Min(a, b) == IF a <= b THEN a ELSE b

\* The number x as an entry of pe.
Const(x) == [fn |-> "const", p |-> x, k |-> 0, dm |-> 1]

\* exp(0) = 1 as a frequency, and the angle 0.
One == [k |-> 0, dm |-> 1]
ZeroAngle == [p |-> 0, k |-> 0, dm |-> 1]

\* torch.arange(start, stop, step)
Arange(start, stop, step) ==
    [i \in 1..((stop - start + step - 1) \div step) |-> start + (i - 1) * step]

\* torch.exp(x * (-math.log(10000.0) / d)) for the integer x
ExpDecay(x, d) == IF x = 0 THEN One ELSE [k |-> x, dm |-> d]

\* the product p * w of a position and a frequency
Times(p, w) == IF p = 0 THEN ZeroAngle ELSE [p |-> p, k |-> w.k, dm |-> w.dm]

\* torch.sin, torch.cos
Sin(a) == IF a = ZeroAngle THEN Const(0) ELSE [fn |-> "sin", p |-> a.p, k |-> a.k, dm |-> a.dm]
Cos(a) == IF a = ZeroAngle THEN Const(1) ELSE [fn |-> "cos", p |-> a.p, k |-> a.k, dm |-> a.dm]

(***************************************************************************)
(* sinusoidal-q7.ipynb: SinusoidalPositionalEmbedding.__init__              *)
(***************************************************************************)
\* pe = torch.zeros(max_seq_len, d_model)
Zeros(rows, cols) == [r \in 1..rows |-> [c \in 1..cols |-> Const(0)]]

\* position = torch.arange(0, max_seq_len, dtype=torch.float).unsqueeze(1)
Position(L) == Arange(0, L, 1)

\* Faulty variant of DivTerm: the exponents step by 1, arange(0, d_model // 2).
DivTermUnitStep(d) ==
    LET steps == Arange(0, d, 2)
    IN  [i \in 1..Len(steps) |-> ExpDecay(i - 1, d)]

\* div_term = torch.exp(torch.arange(0, d_model, 2).float() * (-math.log(10000.0) / d_model))
DivTerm(d) ==
    LET steps == Arange(0, d, 2)
    IN  [i \in 1..Len(steps) |-> ExpDecay(steps[i], d)]

\* position * div_term: a column times a row, broadcast to a matrix
Angles(position, div_term) ==
    LET half == Len(div_term)
    IN  [r \in 1..Len(position) |-> [i \in 1..half |-> Times(position[r], div_term[i])]]

\* the 0-based columns of the slices 0::2 and 1::2 of a row of width d
EvenCols(d) == Arange(0, d, 2)
OddCols(d) == Arange(1, d, 2)

\* pe[:, cols] = value raises unless value's width is that of the slice, or 1
\* (a width of 1 expands to any width, 0 included).
AssignOK(cols, value) == Len(value[1]) = Len(cols) \/ Len(value[1]) = 1

\* pe[:, cols] = value
AssignCols(table, cols, value) ==
    LET ncols == Len(cols)
    IN  [r \in 1..Len(table) |->
           LET row == table[r]
               src == value[r]
               width == Len(src)
           IN  [c \in 1..Len(row) |->
                  IF \E i \in 1..ncols : cols[i] = c - 1
                  THEN LET i == CHOOSE i \in 1..ncols : cols[i] = c - 1
                       IN  src[IF width = 1 THEN 1 ELSE i]
                  ELSE row[c]]]

\* the number of slice assignments that wrote each entry, after one more
CountCols(counts, cols) ==
    LET ncols == Len(cols)
    IN  [r \in 1..Len(counts) |->
           LET row == counts[r]
           IN  [c \in 1..Len(row) |->
                  row[c] + Cardinality({i \in 1..ncols : cols[i] = c - 1})]]

\* torch.sin(position * div_term), the value of the first assignment
SinValue(L, d) ==
    LET angles == Angles(Position(L), DivTerm(d))
    IN  [r \in 1..L |-> LET arow == angles[r] IN [i \in 1..Len(arow) |-> Sin(arow[i])]]

\* torch.cos(position * div_term), the value of the second assignment
CosValue(L, d) ==
    LET angles == Angles(Position(L), DivTerm(d))
    IN  [r \in 1..L |-> LET arow == angles[r] IN [i \in 1..Len(arow) |-> Cos(arow[i])]]

\* pe[:, 0::2] = torch.sin(position * div_term)
AfterSin(L, d) == AssignCols(Zeros(L, d), EvenCols(d), SinValue(L, d))

\* pe[:, 1::2] = torch.cos(position * div_term); self.register_buffer("pe", pe)
BuildTable(L, d) == AssignCols(AfterSin(L, d), OddCols(d), CosValue(L, d))

\* SinusoidalPositionalEmbedding(a1, a2): the arguments are bound by position,
\* a1 to max_seq_len and a2 to d_model.
Init__(a1, a2) ==
    /\ epc = "new"
    /\ max_seq_len' = a1
    /\ d_model' = a2
    /\ IF AssignOK(OddCols(a2), CosValue(a1, a2))
       THEN /\ pe' = BuildTable(a1, a2)
            /\ assigned' = CountCols(CountCols([r \in 1..a1 |-> [c \in 1..a2 |-> 0]],
                                               EvenCols(a2)), OddCols(a2))
            /\ epc' = "ready"
       ELSE \* the second assignment raises: no object is constructed
            /\ pe' = <<>>
            /\ assigned' = <<>>
            /\ epc' = "raised"
    /\ UNCHANGED <<returned, script, nwrites>>
    /\ UNCHANGED attnVars

\* A caller constructs the module with any arguments.
Construct ==
    /\ script = "any"
    /\ \E a1 \in 1..MaxLen, a2 \in 1..MaxModel : Init__(a1, a2)

\* The test cell: custom_pos_emb = SinusoidalPositionalEmbedding(d_model, max_seq_len)
TestCellConstruct ==
    /\ script = "test"
    /\ Init__(TestDModel, TestMaxSeqLen)

(***************************************************************************)
(* sinusoidal-q7.ipynb: SinusoidalPositionalEmbedding.forward               *)
(***************************************************************************)
\* Faulty variant of SliceRows: one row short, self.pe[:n - 1, :].
SliceRowsOneShort(table, n) == SubSeq(table, 1, Min(n, Len(table)) - 1)

\* self.pe[:n, :]: a Python slice stops at the end of the table
SliceRows(table, n) == SubSeq(table, 1, Min(n, Len(table)))

\* return self.pe[:x.shape[1], :].unsqueeze(0), for x with x.shape[1] = n.
\* Slicing and unsqueeze return views: the tensor returned is rows 1..rows of
\* pe's own storage; data is what it holds when it is returned.
Forward__(n) ==
    /\ epc = "ready"
    /\ returned' = Append(returned,
                          [n |-> n,
                           rows |-> Len(SliceRows(pe, n)),
                           shape |-> <<1, Len(SliceRows(pe, n)), Len(pe[1])>>,
                           data |-> <<SliceRows(pe, n)>>])
    /\ UNCHANGED <<max_seq_len, d_model, pe, assigned, epc, script, nwrites>>
    /\ UNCHANGED attnVars

\* A caller passes an input of any sequence length, also one past max_seq_len.
Forward ==
    /\ script = "any"
    /\ Len(returned) < MaxCalls
    /\ \E n \in 0..(max_seq_len + 1) : Forward__(n)

\* The test cell: positions = torch.arange(seq_len).unsqueeze(0);
\* positional_encoding_custom = custom_pos_emb(positions)
TestCellForward ==
    /\ script = "test"
    /\ returned = <<>>
    /\ Forward__(TestSeqLen)

\* A caller writes in place into a tensor forward returned (t[0, r, c] = x):
\* the tensor is a view, so the write lands in pe.
CallerWrite ==
    /\ epc = "ready"
    /\ nwrites < MaxWrites
    /\ \E i \in 1..Len(returned) :
         \E r \in 1..returned[i].rows, c \in 1..d_model :
            pe' = [pe EXCEPT ![r][c] = Const(7)]
    /\ nwrites' = nwrites + 1
    /\ UNCHANGED <<max_seq_len, d_model, assigned, returned, epc, script>>
    /\ UNCHANGED attnVars

attnIdle ==
    /\ q = NoTensor /\ k = NoTensor /\ v = NoTensor /\ mask = NoTensor
    /\ scores = NoTensor /\ attention_weights = NoTensor /\ output = NoTensor
    /\ pc = "idle"

\* Before the constructor runs: a caller of the module, or the test cell.
InitEmbedding ==
    /\ max_seq_len = 0 /\ d_model = 0 /\ pe = <<>> /\ assigned = <<>>
    /\ returned = <<>> /\ epc = "new" /\ nwrites = 0
    /\ script \in {"any", "test"}
    /\ attnIdle

InitAliasing == InitEmbedding /\ script = "any"

NextEmbedding == Construct \/ TestCellConstruct \/ Forward \/ TestCellForward

NextAliasing == Construct \/ Forward \/ CallerWrite

\* Callers that only read what forward returns.
SpecEmbedding == InitEmbedding /\ [][NextEmbedding]_vars

\* Callers (one or several threads, in any interleaving) that also write in
\* place into what forward returned.
SpecAliasing == InitAliasing /\ [][NextAliasing]_vars

(***************************************************************************)
(* attention-q4.ipynb, test cell: F.scaled_dot_product_attention(q, k, v),   *)
(* the reference softmax(q k^T / sqrt(d_k)) v, written entry by entry        *)
(***************************************************************************)
RefScore(qq, kk, b, r, c) ==
    Fin(SumSeq([j \in 1..qq.shape[3] |-> qq.data[b][r][j] * kk.data[b][c][j]]), qq.shape[3])

ReferenceAttention(qq, kk, vv) ==
    [shape |-> <<qq.shape[1], qq.shape[2], vv.shape[3]>>,
     data |-> [b \in 1..qq.shape[1] |-> [r \in 1..qq.shape[2] |-> [e \in 1..vv.shape[3] |->
                 LET atoms == [c \in 1..kk.shape[2] |-> RefScore(qq, kk, b, r, c)]
                     total == BagSumSeq([c \in 1..kk.shape[2] |-> SetToBag({atoms[c]})])
                 IN  [num |-> [a \in DOMAIN total |->
                                 SumSeq([c \in 1..kk.shape[2] |->
                                    IF atoms[c] = a THEN vv.data[b][c][e] ELSE 0])],
                      den |-> total]]]]]

(***************************************************************************)
(* Properties of scaled_dot_product_attention                              *)
(***************************************************************************)
\* The mask entry that applies to batch b, query row r, key column c.
MaskAt(b, r, c) ==
    mask.data[Bix(mask.shape[1], b)][Bix(mask.shape[2], r)][Bix(mask.shape[3], c)]

Blocked(b, r, c) == mask # NoTensor /\ MaskAt(b, r, c) = 0

FullyMasked(b, r) == \A c \in 1..k.shape[2] : Blocked(b, r, c)

\* The scaled score of (b, r, c), from q and k.
ScaledScore(b, r, c) ==
    Fin(SumSeq([j \in 1..q.shape[3] |->
           q.data[Bix(q.shape[1], b)][r][j] * k.data[Bix(k.shape[1], b)][c][j]]),
        q.shape[3])

WeightAt(b, r, c) == attention_weights.data[b][r][c]

WeightsComputed == pc \in {"weighted", "returned"}

DataShape(t) == <<Len(t.data), Len(t.data[1]), Len(t.data[1][1])>>

\* q of shape (B, Sq, Dk), k of (B, Sk, Dk), v of (B, Sk, Dv)
ContractShapes ==
    /\ q.shape[1] = k.shape[1] /\ k.shape[1] = v.shape[1]
    /\ q.shape[3] = k.shape[3]
    /\ k.shape[2] = v.shape[2]

\* mask is None or broadcastable to (B, Sq, Sk)
MaskFits ==
    \/ mask = NoTensor
    \/ /\ mask.shape[1] \in {1, q.shape[1]}
       /\ mask.shape[2] \in {1, q.shape[2]}
       /\ mask.shape[3] \in {1, k.shape[2]}

\* C1 (masking correctness): for a mask that broadcasts to the scores' shape,
\* in every query row that is not fully masked, a
\* position whose mask entry is 0 has weight 0, and a position whose mask entry
\* is non-zero has the weight exp(its scaled score) over the sum of the exps of
\* the unmasked positions of the row: the mask acts on the scaled scores,
\* before the softmax normalises.
MaskingCorrect ==
    (WeightsComputed /\ mask # NoTensor /\ MaskFits) =>
        \A b \in 1..attention_weights.shape[1], r \in 1..attention_weights.shape[2] :
            ~FullyMasked(b, r) =>
                \A c \in 1..attention_weights.shape[3] :
                    /\ WeightAt(b, r, c).den =
                          BagSumSeq([j \in 1..k.shape[2] |->
                             IF MaskAt(b, r, j) = 0 THEN EmptyBag
                             ELSE SetToBag({ScaledScore(b, r, j)})])
                    /\ WeightAt(b, r, c).den # EmptyBag
                    /\ IF MaskAt(b, r, c) = 0
                       THEN WeightAt(b, r, c).num = EmptyBag
                       ELSE WeightAt(b, r, c).num = SetToBag({ScaledScore(b, r, c)})

\* C1 witness: a call returned with a row holding a masked and an unmasked key.
MaskedPairReturned ==
    /\ pc = "returned"
    /\ mask # NoTensor /\ MaskFits
    /\ \E b \in 1..attention_weights.shape[1], r \in 1..attention_weights.shape[2] :
         \E c1, c2 \in 1..attention_weights.shape[3] :
            /\ MaskAt(b, r, c1) = 0 /\ MaskAt(b, r, c2) # 0
            /\ WeightAt(b, r, c1).num = EmptyBag
            /\ WeightAt(b, r, c2).num # EmptyBag

\* C2 (shape correctness): for q (B, Sq, Dk), k (B, Sk, Dk), v (B, Sk, Dv) and
\* no mask or one that broadcasts to (B, Sq, Sk), the call does not raise and
\* returns output of shape (B, Sq, Dv) and weights of shape (B, Sq, Sk).
ShapeCorrect ==
    (ContractShapes /\ MaskFits) =>
        /\ pc # "error"
        /\ pc = "returned" =>
              /\ output.shape = <<q.shape[1], q.shape[2], v.shape[3]>>
              /\ DataShape(output) = output.shape
              /\ attention_weights.shape = <<q.shape[1], q.shape[2], k.shape[2]>>
              /\ DataShape(attention_weights) = attention_weights.shape

\* C2 witness: a batched call returned with Sq # Sk and Dv # Dk.
RectangularReturned ==
    /\ pc = "returned"
    /\ ContractShapes /\ MaskFits
    /\ q.shape[1] > 1
    /\ q.shape[2] # k.shape[2]
    /\ v.shape[3] # q.shape[3]

\* C7 (shape errors before any computation): a call that fails with a shape
\* error has run neither the score product, nor the masking, nor the softmax,
\* nor the value product.
ShapeErrorBeforeComputation ==
    pc = "error" =>
        /\ scores = NoTensor
        /\ attention_weights = NoTensor
        /\ output = NoTensor

\* C9 (row-stochastic): with no mask or a mask that broadcasts to the scores'
\* shape, every row of the weights that is not fully masked sums to 1, and
\* every entry of it lies in [0, 1].
RowStochastic ==
    (WeightsComputed /\ MaskFits) =>
        \A b \in 1..attention_weights.shape[1], r \in 1..attention_weights.shape[2] :
            ~FullyMasked(b, r) =>
                LET total == WeightAt(b, r, 1).den
                IN  /\ total # EmptyBag
                    /\ \A c \in 1..attention_weights.shape[3] :
                          /\ WeightAt(b, r, c).den = total
                          /\ WeightAt(b, r, c).num \sqsubseteq total
                    /\ BagSumSeq([c \in 1..attention_weights.shape[3] |->
                                     WeightAt(b, r, c).num]) = total

\* C9 witness: a returned row over several keys with different scores, one of
\* them masked.
MixedRowReturned ==
    /\ pc = "returned"
    /\ MaskFits
    /\ \E b \in 1..attention_weights.shape[1], r \in 1..attention_weights.shape[2] :
         /\ ~FullyMasked(b, r)
         /\ \E c \in 1..attention_weights.shape[3] : Blocked(b, r, c)
         /\ Cardinality(DOMAIN WeightAt(b, r, 1).den) >= 2

\* C10 (reference equivalence): without a mask, the output equals the reference
\* softmax(q k^T / sqrt(d_k)) v with d_k = q's last dimension.
ReferenceEquivalent ==
    (pc = "returned" /\ mask = NoTensor /\ ContractShapes) =>
        output = ReferenceAttention(q, k, v)

\* C10 witness: the notebook's comparison, batch 1, seq_len 3, dim 3, agrees.
TestCellCompared ==
    /\ pc = "returned"
    /\ mask = NoTensor
    /\ q.shape = <<batch_size, seq_len, dim>>
    /\ output = ReferenceAttention(q, k, v)
    /\ \E r \in 1..seq_len : Cardinality(DOMAIN output.data[1][r][1].den) >= 2

(***************************************************************************)
(* Properties of SinusoidalPositionalEmbedding                             *)
(***************************************************************************)
\* pe[p, c] for 0-based p and c.
PeAt(p, c) == pe[p + 1][c + 1]

\* C3 (invariant on pe): for even d_model every entry of pe was assigned
\* exactly once; channel 2i holds sin(p * w_i) and channel 2i+1 holds
\* cos(p * w_i) with w_i = exp(-ln(10000) * 2i / d_model); row 0 is 0 on even
\* and 1 on odd channels, and pe[p, 0] = sin(p).
PeInvariant ==
    (epc = "ready" /\ d_model % 2 = 0) =>
        /\ Len(pe) = max_seq_len
        /\ \A p \in 0..(max_seq_len - 1) :
              /\ Len(pe[p + 1]) = d_model
              /\ \A i \in 0..((d_model \div 2) - 1) :
                    /\ assigned[p + 1][2 * i + 1] = 1
                    /\ assigned[p + 1][2 * i + 2] = 1
                    /\ PeAt(p, 2 * i) = Sin(Times(p, ExpDecay(2 * i, d_model)))
                    /\ PeAt(p, 2 * i + 1) = Cos(Times(p, ExpDecay(2 * i, d_model)))
                    /\ p = 0 => PeAt(p, 2 * i) = Const(0) /\ PeAt(p, 2 * i + 1) = Const(1)
              /\ PeAt(p, 0) = IF p = 0 THEN Const(0)
                              ELSE [fn |-> "sin", p |-> p, k |-> 0, dm |-> 1]

\* C3 witness: a table with several rows and several channel pairs.
PairedTableBuilt ==
    /\ epc = "ready"
    /\ d_model % 2 = 0 /\ d_model >= 4 /\ max_seq_len >= 2
    /\ PeAt(1, 2) = [fn |-> "sin", p |-> 1, k |-> 2, dm |-> d_model]
    /\ PeAt(1, 3) = [fn |-> "cos", p |-> 1, k |-> 2, dm |-> d_model]

TestCellShape ==
    (script = "test" /\ returned # <<>>) =>
        /\ max_seq_len = TestMaxSeqLen
        /\ d_model = TestDModel
        /\ returned[1].shape = <<1, TestSeqLen, TestDModel>>

\* C6 (range enforcement): no call with a sequence length above max_seq_len
\* returns a tensor, and no tensor returned has fewer rows than were asked for.
RangeEnforced ==
    \A i \in 1..Len(returned) :
        /\ returned[i].n <= max_seq_len
        /\ returned[i].rows >= returned[i].n

\* C8 (no shared mutable state): whatever callers do with the tensors forward
\* returned, pe holds its construction-time values.
PeNeverCorrupted ==
    epc = "ready" => pe = BuildTable(max_seq_len, d_model)

====
